---- MODULE Spec2Model ----
(***************************************************************************)
(* Model of src/app.py, the HR dashboard: the load block, prepare_df       *)
(* (normalisation and derived columns), the two filter panels (df_f and    *)
(* filtered_df), the six KPI functions and the assistant panel's chat      *)
(* history, as one script run per user interaction.                        *)
(*                                                                         *)
(* Encoding.  A cell is a record [k, n, s]: k is its kind ("null" for      *)
(* NaN/NaT/None, "num", "str", "date"), n its number (a date is the        *)
(* integer yyyymmdd), s its text as a tuple of one-character strings.      *)
(* A table is [ok, cols, rows]: cols the set of column labels, rows a      *)
(* sequence of functions from cols to cells.  A view of the canonical      *)
(* table is [ok, cols, idx]: idx the sequence of row positions kept, cols  *)
(* the columns it still carries; ok = FALSE is a run ended by an uncaught  *)
(* exception.  Column labels "Área", "Nível", "Avaliação" are written      *)
(* without accents.                                                        *)
(***************************************************************************)
EXTENDS Integers, Sequences, FiniteSets, TLC

VARIABLES pc, today, source, raw, df, fonte, st_error, w, df_f, filtered_df, kpi,
          show_ia_input, chat_history

vars == <<pc, today, source, raw, df, fonte, st_error, w, df_f, filtered_df, kpi,
          show_ia_input, chat_history>>

(***************************************************************************)
(* Bounds of the model.                                                    *)
(***************************************************************************)
MaxRows == 2
MaxRowsPrep == 3
MaxActive == 2
MaxChat == 2

(***************************************************************************)
(* Sequences and text.                                                     *)
(***************************************************************************)
Range(f) == {f[x] : x \in DOMAIN f}

RECURSIVE SumSeq(_)
SumSeq(q) == IF q = <<>> THEN 0 ELSE Head(q) + SumSeq(Tail(q))

Max0(x) == IF x < 0 THEN 0 ELSE x

LowerLetters == <<"a","b","c","d","e","f","g","h","i","j","k","l","m",
                  "n","o","p","q","r","s","t","u","v","w","x","y","z">>
UpperLetters == <<"A","B","C","D","E","F","G","H","I","J","K","L","M",
                  "N","O","P","Q","R","S","T","U","V","W","X","Y","Z">>
DigitChars == <<"0","1","2","3","4","5","6","7","8","9">>

\* str.upper(), one character
UpperChar(c) ==
    IF \E i \in DOMAIN LowerLetters : LowerLetters[i] = c
    THEN UpperLetters[CHOOSE i \in DOMAIN LowerLetters : LowerLetters[i] = c]
    ELSE c

\* str.upper()
StrUpper(t) == [i \in DOMAIN t |-> UpperChar(t[i])]

IsSpace(c) == c = " "

\* str.strip(): drops the leading and the trailing whitespace
StrStrip(t) ==
    LET keep == {i \in DOMAIN t : ~IsSpace(t[i])}
    IN  IF keep = {} THEN <<>>
        ELSE LET lo == CHOOSE i \in keep : \A j \in keep : i <= j
                 hi == CHOOSE i \in keep : \A j \in keep : j <= i
             IN  SubSeq(t, lo, hi)

\* str.contains(pat, case=False) for a pattern of plain letters
ContainsNoCase(t, pat) ==
    LET T == StrUpper(t)
        P == StrUpper(pat)
    IN  \E i \in 1..(Len(T) - Len(P) + 1) : SubSeq(T, i, i + Len(P) - 1) = P

IsDigit(c) == \E i \in DOMAIN DigitChars : DigitChars[i] = c
DigitVal(c) == (CHOOSE i \in DOMAIN DigitChars : DigitChars[i] = c) - 1

\* the decimal digits of a natural number, str(n)
RECURSIVE NatStr(_)
NatStr(n) == IF n < 10 THEN <<DigitChars[n + 1]>>
             ELSE Append(NatStr(n \div 10), DigitChars[(n % 10) + 1])

\* str(n) of a Python int
IntStr(n) == IF n < 0 THEN <<"-">> \o NatStr(0 - n) ELSE NatStr(n)

\* the decimal digits of n, zero-padded to width wd
RECURSIVE PadStr(_, _)
PadStr(n, wd) == IF wd = 0 THEN <<>>
                 ELSE Append(PadStr(n \div 10, wd - 1), DigitChars[(n % 10) + 1])

AllDigits(t) == Len(t) > 0 /\ \A i \in DOMAIN t : IsDigit(t[i])

\* the value of a tuple of digits
RECURSIVE DigitsVal(_)
DigitsVal(t) == IF t = <<>> THEN 0
                ELSE 10 * DigitsVal(SubSeq(t, 1, Len(t) - 1)) + DigitVal(t[Len(t)])

(***************************************************************************)
(* Cells.                                                                  *)
(***************************************************************************)
Null == [k |-> "null", n |-> 0, s |-> <<>>]
Num(x) == [k |-> "num", n |-> x, s |-> <<>>]
Str(t) == [k |-> "str", n |-> 0, s |-> t]
Date(d) == [k |-> "date", n |-> d, s |-> <<>>]

IsNull(c) == c.k = "null"

\* calendar: the date y-m-d as the integer yyyymmdd
YMD(y, m, d) == y * 10000 + m * 100 + d
YearOf(d) == d \div 10000
MonthOf(d) == (d \div 100) % 100
DayOf(d) == d % 100

IsLeap(y) == (y % 4 = 0 /\ y % 100 # 0) \/ y % 400 = 0

DaysInMonth(y, m) ==
    IF m = 2 THEN (IF IsLeap(y) THEN 29 ELSE 28)
    ELSE IF m \in {4, 6, 9, 11} THEN 30 ELSE 31

\* days since 1970-01-01 of the date yyyymmdd (proleptic Gregorian calendar)
DayNumber(d) ==
    LET y   == IF MonthOf(d) <= 2 THEN YearOf(d) - 1 ELSE YearOf(d)
        era == y \div 400
        yoe == y - era * 400
        mp  == IF MonthOf(d) > 2 THEN MonthOf(d) - 3 ELSE MonthOf(d) + 9
        doy == (153 * mp + 2) \div 5 + DayOf(d) - 1
        doe == yoe * 365 + yoe \div 4 - yoe \div 100 + doy
    IN  era * 146097 + doe - 719468

\* str() of a Timestamp at midnight: "YYYY-MM-DD 00:00:00"
DateStr(d) ==
    PadStr(YearOf(d), 4) \o <<"-">> \o PadStr(MonthOf(d), 2) \o <<"-">>
      \o PadStr(DayOf(d), 2) \o <<" ","0","0",":","0","0",":","0","0">>

\* Series.astype(str), one cell
AsTypeStr(c) ==
    CASE c.k = "str"  -> c.s
      [] c.k = "num"  -> IntStr(c.n)
      [] c.k = "date" -> DateStr(c.n)
      [] OTHER        -> <<"n","a","n">>

(***************************************************************************)
(* Tables.                                                                 *)
(***************************************************************************)
DATE_COLS == {"Data de Nascimento", "Data de Contratacao", "Data de Demissao"}
CurrencyCols == {"Salario Base", "Impostos", "Beneficios", "VT", "VR"}
\* the order of the list the normalisation loop and the row sum walk
CurrencySeq == <<"Salario Base", "Impostos", "Beneficios", "VT", "VR">>

Ativo == <<"A","t","i","v","o">>
Desligado == <<"D","e","s","l","i","g","a","d","o">>
MASCULINO == <<"M","A","S","C","U","L","I","N","O">>
FEMININO == <<"F","E","M","I","N","I","N","O">>

NRows(t) == Len(t.rows)

\* the dtype pandas gives a column: object when it is empty, holds text, or
\* mixes numbers with dates; float64 / datetime64 otherwise
IsObject(t, c) ==
    LET kinds == {t.rows[i][c].k : i \in 1..NRows(t)} \ {"null"}
    IN  NRows(t) = 0 \/ "str" \in kinds \/ Cardinality(kinds) > 1

\* df[c] = f(df[c]), cell by cell
MapCol(t, c, F(_)) ==
    [t EXCEPT !.rows = [i \in 1..NRows(t) |-> [t.rows[i] EXCEPT ![c] = F(@)]]]

\* df[c] = value computed from the row (adds the column when it is absent)
SetCol(t, c, F(_)) ==
    [t EXCEPT !.cols = @ \cup {c},
              !.rows = [i \in 1..NRows(t) |->
                          [x \in t.cols \cup {c} |->
                              IF x = c THEN F(t.rows[i]) ELSE t.rows[i][x]]]]

\* pd.to_datetime(..., errors="coerce") of one cell; text is read in the
\* ISO forms "YYYY-MM-DD" and "YYYY-MM-DD 00:00:00", anything else is NaT
ParseDate(t) ==
    LET shape == /\ Len(t) \in {10, 19}
                 /\ t[5] = "-" /\ t[8] = "-"
                 /\ AllDigits(SubSeq(t, 1, 4))
                 /\ AllDigits(SubSeq(t, 6, 7))
                 /\ AllDigits(SubSeq(t, 9, 10))
                 /\ Len(t) = 19 =>
                      SubSeq(t, 11, 19) = <<" ","0","0",":","0","0",":","0","0">>
        y == DigitsVal(SubSeq(t, 1, 4))
        m == DigitsVal(SubSeq(t, 6, 7))
        d == DigitsVal(SubSeq(t, 9, 10))
    IN  IF shape /\ m \in 1..12 /\ d \in 1..DaysInMonth(y, m)
        THEN Date(y * 10000 + m * 100 + d)
        ELSE Null

ToDatetime(c) ==
    CASE c.k = "date" -> c
      [] c.k = "null" -> Null
      [] c.k = "str"  -> ParseDate(c.s)

\* pd.to_numeric(..., errors="coerce") of one cell; text is read as a
\* decimal integer with an optional sign, anything else is NaN
ParseNum(t) ==
    IF AllDigits(t) THEN Num(DigitsVal(t))
    ELSE IF Len(t) > 1 /\ t[1] = "-" /\ AllDigits(Tail(t))
         THEN Num(0 - DigitsVal(Tail(t)))
         ELSE Null

ToNumeric(c) ==
    CASE c.k = "num"  -> c
      [] c.k = "null" -> Null
      [] c.k = "str"  -> ParseNum(c.s)

\* variant: the missing values are left as they are
FillNa0_Skipped(c) == c

\* Series.fillna(0.0), one cell
FillNa0(c) == IF IsNull(c) THEN Num(0) ELSE c

(***************************************************************************)
(* prepare_df, step by step.                                               *)
(***************************************************************************)
\* "Padroniza textos": every object column is converted to text and stripped
StdText(t) ==
    [t EXCEPT !.rows = [i \in 1..NRows(t) |->
        [c \in t.cols |->
            IF IsObject(t, c) THEN Str(StrStrip(AsTypeStr(t.rows[i][c])))
            ELSE t.rows[i][c]]]]

\* "Datas": the date columns present are parsed, failures become NaT
StdDates(t) ==
    [t EXCEPT !.rows = [i \in 1..NRows(t) |->
        [c \in t.cols |->
            IF c \in DATE_COLS THEN ToDatetime(t.rows[i][c]) ELSE t.rows[i][c]]]]

\* .str.upper().replace({"MASCULINO": "M", "FEMININO": "F"}), one cell
SexoCell(c) ==
    LET u == StrUpper(c.s)
    IN  IF u = MASCULINO THEN Str(<<"M">>)
        ELSE IF u = FEMININO THEN Str(<<"F">>)
        ELSE Str(u)

\* "Padroniza Sexo": the .str accessor raises AttributeError on a column
\* that is not of text dtype
SexoRaises(t) == "Sexo" \in t.cols /\ ~IsObject(t, "Sexo")

StdSexo(t) == IF "Sexo" \in t.cols THEN MapCol(t, "Sexo", SexoCell) ELSE t

\* one currency cell: pd.to_numeric(errors="coerce").fillna(0.0)
CurrencyCell(c) == FillNa0(ToNumeric(c))

\* "Garante numericos": an absent currency column is created as 0.0, then
\* every cell is coerced and the missing ones filled with 0.0
StdCurrency(t) ==
    [t EXCEPT !.cols = @ \cup CurrencyCols,
              !.rows = [i \in 1..NRows(t) |->
                  [c \in t.cols \cup CurrencyCols |->
                      IF c \in CurrencyCols
                      THEN CurrencyCell(IF c \in t.cols THEN t.rows[i][c] ELSE Num(0))
                      ELSE t.rows[i][c]]]]

\* variant: the value is not clipped
ClipLower0_Skipped(x) == x

\* Series.clip(lower=0), one value
ClipLower0(x) == Max0(x)

\* df["Idade"]: whole years of 365 days since the birth date, clipped at 0
Idade(r, td) ==
    IF IsNull(r["Data de Nascimento"]) THEN Null
    ELSE Num(ClipLower0((DayNumber(td) - DayNumber(r["Data de Nascimento"].n)) \div 365))

\* variant: completed months, a month counting once its day is reached
TempoDeCasa_WholeMonths(r, td) ==
    IF IsNull(r["Data de Contratacao"]) THEN Null
    ELSE LET h == r["Data de Contratacao"].n
             m == (YearOf(td) - YearOf(h)) * 12 + (MonthOf(td) - MonthOf(h))
         IN  Num(Max0(IF DayOf(td) < DayOf(h) THEN m - 1 ELSE m))

\* df["Tempo de Casa (meses)"]: calendar months since the hire date, clipped at 0
TempoDeCasa(r, td) ==
    IF IsNull(r["Data de Contratacao"]) THEN Null
    ELSE LET h == r["Data de Contratacao"].n
         IN  Num(ClipLower0((YearOf(td) - YearOf(h)) * 12 + (MonthOf(td) - MonthOf(h))))

\* variant: the two labels of np.where exchanged
StatusOf_Swapped(r) ==
    IF ~IsNull(r["Data de Demissao"]) THEN Str(Ativo) ELSE Str(Desligado)

\* df["Status"] of a row when the termination column exists
StatusOf(r) ==
    IF ~IsNull(r["Data de Demissao"]) THEN Str(Desligado) ELSE Str(Ativo)

\* variant: the sum leaves the last column of the list out
CustoTotal_FourColumns(r) ==
    Num(SumSeq([i \in 1..(Len(CurrencySeq) - 1) |-> r[CurrencySeq[i]].n]))

\* df["Custo Total Mensal"]: the row sum of the five currency columns
CustoTotal(r) == Num(SumSeq([i \in DOMAIN CurrencySeq |-> r[CurrencySeq[i]].n]))

Derive(t, td) ==
    LET t1 == IF "Data de Nascimento" \in t.cols
              THEN SetCol(t, "Idade", LAMBDA r : Idade(r, td)) ELSE t
        t2 == IF "Data de Contratacao" \in t1.cols
              THEN SetCol(t1, "Tempo de Casa (meses)", LAMBDA r : TempoDeCasa(r, td))
              ELSE t1
        t3 == IF "Data de Demissao" \in t2.cols
              THEN SetCol(t2, "Status", StatusOf)
              ELSE SetCol(t2, "Status", LAMBDA r : Str(Ativo))
    IN  SetCol(t3, "Custo Total Mensal", CustoTotal)

Raised == [ok |-> FALSE, cols |-> {}, rows |-> <<>>]

prepare_df(t, td) ==
    LET t1 == StdDates(StdText(t))
    IN  IF SexoRaises(t1) THEN Raised
        ELSE Derive(StdCurrency(StdSexo(t1)), td)

(***************************************************************************)
(* Views of the canonical table and the widgets' values.                   *)
(***************************************************************************)
FullView(t) == [ok |-> TRUE, cols |-> t.cols, idx |-> [i \in 1..NRows(t) |-> i]]
RaisedView == [ok |-> FALSE, cols |-> {}, idx |-> <<>>]

\* df_[mask]: the rows of v whose row in t satisfies P
Keep(t, v, P(_)) == [v EXCEPT !.idx = SelectSeq(v.idx, LAMBDA i : P(t.rows[i]))]

\* a range widget's value: None, a (lo, hi) tuple, a tuple of one date (the
\* user has picked the first date of a range only), or (NaT, NaT)
RNone == [k |-> "none", lo |-> 0, hi |-> 0]
RPair(a, b) == [k |-> "pair", lo |-> a, hi |-> b]
ROne(a) == [k |-> "one", lo |-> a, hi |-> a]
RNat == [k |-> "nat", lo |-> 0, hi |-> 0]

\* a widget's value: a multiselect's list, a text input's text, or a range
WSel(S) == [sel |-> S, txt |-> <<>>, rng |-> RNone]
WTxt(x) == [sel |-> {}, txt |-> x, rng |-> RNone]
WRng(r) == [sel |-> {}, txt |-> <<>>, rng |-> r]

\* the non-null values of a column of t
Values(t, c) == {t.rows[i][c] : i \in 1..NRows(t)} \ {Null}
Numbers(t, c) == {x.n : x \in Values(t, c)}
MinOf(S) == CHOOSE x \in S : \A y \in S : x <= y
MaxOf(S) == CHOOSE x \in S : \A y \in S : y <= x

\* msel(col_name) and the advanced multiselects: the options offered
msel(t, c) == IF c \in t.cols THEN Values(t, c) ELSE {}

\* date_bounds(series): None, or (min, max) of the non-null dates
date_bounds(t, c) ==
    IF c \in t.cols /\ Values(t, c) # {}
    THEN RPair(MinOf(Numbers(t, c)), MaxOf(Numbers(t, c)))
    ELSE RNone

\* the sliders: None, or (min, max) of the column, which is also the default
slider_bounds(t, c) ==
    IF c \in t.cols /\ Values(t, c) # {}
    THEN RPair(MinOf(Numbers(t, c)), MaxOf(Numbers(t, c)))
    ELSE RNone

\* the advanced date inputs' default: (min, max) of the column, (NaT, NaT)
\* when it has no date, None when the column is absent
periodo_default(t, c) ==
    IF c \notin t.cols THEN RNone
    ELSE IF Values(t, c) = {} THEN RNat
    ELSE RPair(MinOf(Numbers(t, c)), MaxOf(Numbers(t, c)))

(***************************************************************************)
(* The basic filter panel: df_f.                                           *)
(***************************************************************************)
\* apply_in(df_, col, values)
apply_in(t, v, col, values) ==
    IF values # {} /\ col \in v.cols
    THEN Keep(t, v, LAMBDA r : r[col] \in values)
    ELSE v

\* df_[df_[col].str.contains(text, case=False, na=False)]; the .str accessor
\* raises AttributeError on a column that is not of text dtype
NameMatch(t, v, col, text) ==
    IF ~IsObject(t, col) THEN RaisedView
    ELSE Keep(t, v, LAMBDA r : r[col].k = "str" /\ ContainsNoCase(r[col].s, text))

\* df_[(df_[col] >= lo) & (df_[col] <= hi)]: a comparison with NaN is false
InRange(t, v, col, rng) ==
    Keep(t, v, LAMBDA r : ~IsNull(r[col]) /\ r[col].n >= rng.lo /\ r[col].n <= rng.hi)

\* df_[df_[col].isna() | ((df_[col] >= d1) & (df_[col] <= d2))]
InPeriod(t, v, col, rng) ==
    Keep(t, v, LAMBDA r : IsNull(r[col])
                          \/ (rng.k = "pair" /\ r[col].n >= rng.lo /\ r[col].n <= rng.hi))

BasicOrder == <<"area_sel", "nivel_sel", "cargo_sel", "sexo_sel", "status_sel",
                "nome_busca", "basic_faixa_idade", "basic_faixa_sal",
                "basic_periodo_contratacao", "basic_periodo_demissao">>

AdvancedOrder == <<"area_filtrada", "cargo_filtrado", "nivel_filtrado",
                   "sexo_filtrado", "status_filtrado", "nome_filtrado",
                   "faixa_idade_advanced", "faixa_sal_advanced",
                   "advanced_periodo_contratacao", "advanced_periodo_demissao">>

Widgets == Range(BasicOrder) \cup Range(AdvancedOrder)

\* the column each widget filters
WidgetCol(id) ==
    CASE id \in {"area_sel", "area_filtrada"} -> "Area"
      [] id \in {"nivel_sel", "nivel_filtrado"} -> "Nivel"
      [] id \in {"cargo_sel", "cargo_filtrado"} -> "Cargo"
      [] id \in {"sexo_sel", "sexo_filtrado"} -> "Sexo"
      [] id \in {"status_sel", "status_filtrado"} -> "Status"
      [] id \in {"nome_busca", "nome_filtrado"} -> "Nome Completo"
      [] id \in {"basic_faixa_idade", "faixa_idade_advanced"} -> "Idade"
      [] id \in {"basic_faixa_sal", "faixa_sal_advanced"} -> "Salario Base"
      [] id \in {"basic_periodo_contratacao", "advanced_periodo_contratacao"}
           -> "Data de Contratacao"
      [] id \in {"basic_periodo_demissao", "advanced_periodo_demissao"}
           -> "Data de Demissao"

\* one statement of the basic block, applied to the running view v
BasicStep(id, t, ws, v) ==
    LET col == WidgetCol(id)
        x   == ws[id]
    IN  IF ~v.ok THEN v
        ELSE CASE id \in {"area_sel", "nivel_sel", "cargo_sel", "sexo_sel", "status_sel"}
                    -> apply_in(t, v, col, x.sel)
               [] id = "nome_busca"
                    -> IF x.txt # <<>> /\ col \in v.cols
                       THEN NameMatch(t, v, col, x.txt) ELSE v
               [] id \in {"basic_faixa_idade", "basic_faixa_sal"}
                    -> IF x.rng.k # "none" /\ col \in v.cols
                       THEN InRange(t, v, col, x.rng) ELSE v
               [] id \in {"basic_periodo_contratacao", "basic_periodo_demissao"}
                    -> IF x.rng.k # "none" /\ col \in v.cols
                       THEN InPeriod(t, v, col, x.rng) ELSE v

RECURSIVE BasicSteps(_, _, _, _)
BasicSteps(order, t, ws, v) ==
    IF order = <<>> THEN v
    ELSE BasicSteps(Tail(order), t, ws, BasicStep(Head(order), t, ws, v))

\* d1, d2 = st.sidebar.date_input(...) raises ValueError on a tuple of one date
BasicUnpackRaises(ws) ==
    \E id \in {"basic_periodo_contratacao", "basic_periodo_demissao"} : ws[id].rng.k = "one"

\* lines 261-291: df_f
BasicFilter(t, ws) ==
    IF BasicUnpackRaises(ws) THEN RaisedView
    ELSE BasicSteps(BasicOrder, t, ws, FullView(t))

(***************************************************************************)
(* The advanced filter panel: filtered_df.                                 *)
(***************************************************************************)
\* the column labels a cell value can equal: the text of a label, or the
\* number of a column whose header is a number
LabelText == [l \in {"VT", "VR"} |-> IF l = "VT" THEN <<"V","T">> ELSE <<"V","R">>]
\* the column whose header cell is the number 1
NumberedCol == "#1"

CellIsLabel(c, l) ==
    \/ c.k = "str" /\ l \in DOMAIN LabelText /\ LabelText[l] = c.s
    \/ c.k = "num" /\ l = NumberedCol /\ c.n = 1

\* filtered_df[values]: indexing a frame with a list selects the COLUMNS so
\* labelled and raises KeyError when a label is no column
SelectColumns(v, values) ==
    IF \A c \in values : \E l \in v.cols : CellIsLabel(c, l)
    THEN [v EXCEPT !.cols = {l \in v.cols : \E c \in values : CellIsLabel(c, l)}]
    ELSE RaisedView

\* one statement of the advanced block, applied to the running view v
AdvancedStep(id, t, ws, v) ==
    LET col == WidgetCol(id)
        x   == ws[id]
    IN  IF ~v.ok THEN v
        ELSE CASE id = "area_filtrada"
                    -> IF x.sel = {} THEN v
                       ELSE IF col \notin v.cols THEN RaisedView
                       ELSE Keep(t, v, LAMBDA r : r[col] \in x.sel)
               [] id \in {"cargo_filtrado", "nivel_filtrado", "sexo_filtrado",
                          "status_filtrado"}
                    -> IF x.sel = {} THEN v ELSE SelectColumns(v, x.sel)
               [] id = "nome_filtrado"
                    -> IF x.txt = <<>> THEN v
                       ELSE IF col \notin v.cols THEN RaisedView
                       ELSE NameMatch(t, v, col, x.txt)
               [] id \in {"faixa_idade_advanced", "faixa_sal_advanced"}
                    -> IF x.rng.k # "none" /\ col \in v.cols
                       THEN InRange(t, v, col, x.rng) ELSE v
               [] id \in {"advanced_periodo_contratacao", "advanced_periodo_demissao"}
                    -> IF x.rng.k # "none" /\ col \in v.cols
                       THEN (IF x.rng.k = "one" THEN RaisedView
                             ELSE InPeriod(t, v, col, x.rng))
                       ELSE v

RECURSIVE AdvancedSteps(_, _, _, _)
AdvancedSteps(order, t, ws, v) ==
    IF order = <<>> THEN v
    ELSE AdvancedSteps(Tail(order), t, ws, AdvancedStep(Head(order), t, ws, v))

\* lines 360-385: filtered_df
AdvancedFilter(t, ws) == AdvancedSteps(AdvancedOrder, t, ws, FullView(t))

(***************************************************************************)
(* The KPI functions, over a view v of the table t.  A mean is the pair    *)
(* [num, den] of the sum and the count; 0.0 is [num |-> 0, den |-> 1] and  *)
(* a pair with den = 0 is NaN.                                             *)
(***************************************************************************)
Zero == [num |-> 0, den |-> 1]

ViewCol(t, v, c) == [j \in 1..Len(v.idx) |-> t.rows[v.idx[j]][c]]

AtivoRows(t, v) == SelectSeq(v.idx, LAMBDA i : t.rows[i]["Status"] = Str(Ativo))

k_headcount_ativo(t, v) ==
    IF "Status" \in v.cols THEN Len(AtivoRows(t, v)) ELSE 0

k_desligados_AllRows(t, v) ==
    IF "Status" \in v.cols THEN Len(v.idx) ELSE 0

k_desligados(t, v) ==
    IF "Status" \in v.cols
    THEN Len(SelectSeq(v.idx, LAMBDA i : t.rows[i]["Status"] = Str(Desligado)))
    ELSE 0

k_folha(t, v) ==
    IF "Salario Base" \in v.cols /\ "Status" \in v.cols
    THEN SumSeq([j \in 1..Len(AtivoRows(t, v)) |->
                    t.rows[AtivoRows(t, v)[j]]["Salario Base"].n])
    ELSE 0

k_custo_total(t, v) ==
    IF "Custo Total Mensal" \in v.cols /\ "Status" \in v.cols
    THEN SumSeq([j \in 1..Len(AtivoRows(t, v)) |->
                    t.rows[AtivoRows(t, v)[j]]["Custo Total Mensal"].n])
    ELSE 0

\* Series.dropna()
DropNa(q) == SelectSeq(q, LAMBDA c : ~IsNull(c))

\* Series.mean(): the mean of the non-null values, NaN when there is none
Mean(q) == [num |-> SumSeq([j \in 1..Len(DropNa(q)) |-> DropNa(q)[j].n]),
            den |-> Len(DropNa(q))]

\* variant: the mean taken without the test for an empty column
k_idade_media_Unguarded(t, v) ==
    IF "Idade" \in v.cols THEN Mean(ViewCol(t, v, "Idade")) ELSE Zero

k_idade_media(t, v) ==
    IF "Idade" \in v.cols /\ DropNa(ViewCol(t, v, "Idade")) # <<>>
    THEN Mean(ViewCol(t, v, "Idade"))
    ELSE Zero

k_avaliacao_media(t, v) ==
    IF "Avaliacao" \in v.cols /\ DropNa(ViewCol(t, v, "Avaliacao")) # <<>>
    THEN Mean(ViewCol(t, v, "Avaliacao"))
    ELSE Zero

\* Series.mean() raises TypeError on a column of text
MeanRaises(t, v) ==
    /\ "Avaliacao" \in v.cols
    /\ \E j \in 1..Len(v.idx) : t.rows[v.idx[j]]["Avaliacao"].k = "str"

NoKpi == [ok |-> FALSE, headcount |-> 0, desligados |-> 0, folha |-> 0,
          custo |-> 0, idade |-> Zero, avaliacao |-> Zero]

\* lines 419-460: the six cards, computed on filtered_df
Kpis(t, v) ==
    IF ~v.ok \/ MeanRaises(t, v) THEN NoKpi
    ELSE [ok |-> TRUE,
          headcount  |-> k_headcount_ativo(t, v),
          desligados |-> k_desligados(t, v),
          folha      |-> k_folha(t, v),
          custo      |-> k_custo_total(t, v),
          idade      |-> k_idade_media(t, v),
          avaliacao  |-> k_avaliacao_media(t, v)]

(***************************************************************************)
(* What the user can set the widgets to, given the canonical table.        *)
(***************************************************************************)
\* texts typed in the name search boxes
SearchTerms == {<<"a","n">>, <<"R">>}
\* a date of the calendar widget that is no date of the table
PickerDate == YMD(2019, 7, 1)

RRaise == [k |-> "raise", lo |-> 0, hi |-> 0]

Pairs(S) == {RPair(p[1], p[2]) : p \in {q \in S \X S : q[1] <= q[2]}}

MultiselectWidgets == {"area_sel", "nivel_sel", "cargo_sel", "sexo_sel", "status_sel",
                       "area_filtrada", "cargo_filtrado", "nivel_filtrado",
                       "sexo_filtrado", "status_filtrado"}
SliderWidgets == {"basic_faixa_idade", "basic_faixa_sal",
                  "faixa_idade_advanced", "faixa_sal_advanced"}
BasicDateWidgets == {"basic_periodo_contratacao", "basic_periodo_demissao"}
AdvancedDateWidgets == {"advanced_periodo_contratacao", "advanced_periodo_demissao"}

\* the value a widget has when the user leaves it alone
Default(t, id) ==
    CASE id \in MultiselectWidgets -> WSel({})
      [] id \in {"nome_busca", "nome_filtrado"} -> WTxt(<<>>)
      [] id \in SliderWidgets -> WRng(slider_bounds(t, WidgetCol(id)))
      [] id \in BasicDateWidgets -> WRng(date_bounds(t, WidgetCol(id)))
      [] id \in AdvancedDateWidgets -> WRng(periodo_default(t, WidgetCol(id)))

\* the other values the user can give it
Choices(t, id) ==
    LET col == WidgetCol(id)
    IN  CASE id \in MultiselectWidgets
               -> {WSel(S) : S \in (SUBSET msel(t, col)) \ {{}}}
          [] id \in {"nome_busca", "nome_filtrado"}
               -> IF col \in t.cols THEN {WTxt(x) : x \in SearchTerms} ELSE {}
          [] id \in SliderWidgets
               -> IF slider_bounds(t, col).k = "none" THEN {}
                  ELSE {WRng(r) : r \in Pairs(Numbers(t, col))} \ {Default(t, id)}
          [] id \in BasicDateWidgets
               -> IF date_bounds(t, col).k = "none" THEN {}
                  ELSE ({WRng(r) : r \in Pairs(Numbers(t, col) \cup {PickerDate})}
                          \cup {WRng(ROne(PickerDate))}) \ {Default(t, id)}
          [] id \in AdvancedDateWidgets
               -> IF col \notin t.cols THEN {}
                  ELSE ({WRng(r) : r \in Pairs(Numbers(t, col) \cup {PickerDate})}
                          \cup {WRng(ROne(PickerDate))}) \ {Default(t, id)}

\* the subsets of S of at most k elements
RECURSIVE SubsetsUpTo(_, _)
SubsetsUpTo(S, k) ==
    IF k = 0 THEN {{}}
    ELSE SubsetsUpTo(S, k - 1) \cup {A \cup {x} : A \in SubsetsUpTo(S, k - 1), x \in S}

\* every way to give each widget of A one of its non-default values
RECURSIVE Assignments(_, _)
Assignments(t, A) ==
    IF A = {} THEN {<<>>}
    ELSE LET x == CHOOSE y \in A : TRUE
         IN  {(x :> val) @@ g : val \in Choices(t, x), g \in Assignments(t, A \ {x})}

\* st.date_input given (NaT, NaT) as its default: it either raises or hands
\* the tuple back
NatOutcomes(t, id) ==
    IF id \in AdvancedDateWidgets /\ periodo_default(t, WidgetCol(id)) = RNat
    THEN {WRng(RNat), WRng(RRaise)}
    ELSE {Default(t, id)}

\* the widget states of one run: at most MaxActive widgets are off their default
WidgetStates(t) ==
    LET configurable == {id \in Widgets : Choices(t, id) # {}}
    IN  {[id \in Widgets |->
             IF id \in DOMAIN f THEN f[id]
             ELSE IF id = "advanced_periodo_contratacao" THEN n1
             ELSE IF id = "advanced_periodo_demissao" THEN n2
             ELSE Default(t, id)] :
            f \in UNION {Assignments(t, A) : A \in SubsetsUpTo(configurable, MaxActive)},
            n1 \in NatOutcomes(t, "advanced_periodo_contratacao"),
            n2 \in NatOutcomes(t, "advanced_periodo_demissao")}

DateInputRaises(ws) == \E id \in AdvancedDateWidgets : ws[id].rng.k = "raise"

(***************************************************************************)
(* The spreadsheets drawn.  A schema gives, for each column of the sheet,  *)
(* the cells its rows are drawn from.                                      *)
(***************************************************************************)
RowsOf(schema) ==
    {r \in [DOMAIN schema -> UNION Range(schema)] : \A c \in DOMAIN schema : r[c] \in schema[c]}

Sheets(schema, maxRows) ==
    {[ok |-> TRUE, cols |-> DOMAIN schema, rows |-> q] :
        q \in UNION {[1..n -> RowsOf(schema)] : n \in 0..maxRows}}

Birth1 == YMD(1990, 6, 15)
Birth2 == YMD(2000, 12, 31)
Hire1 == YMD(2020, 1, 15)
Hire2 == YMD(2021, 3, 1)
Term1 == YMD(2022, 5, 10)

\* the sheets of the filter runs
FilterSchemas ==
    { ("Area" :> {Str(<<"R","H">>), Str(<<" ","T","I">>)})
        @@ ("Data de Nascimento" :> {Date(Birth1), Null}),
      ("Cargo" :> {Str(<<"V","T">>), Str(<<"D","e","v">>)})
        @@ ("Data de Nascimento" :> {Date(Birth1), Date(Birth2)}),
      ("Nivel" :> {Num(1), Num(2), Null}) @@ (NumberedCol :> {Num(7)}),
      ("Nome Completo" :> {Str(<<"A","n","a">>), Null})
        @@ ("Sexo" :> {Str(<<"m","a","s","c","u","l","i","n","o">>), Str(<<"F">>)}),
      ("Data de Contratacao" :> {Date(Hire1), Date(Hire2), Null})
        @@ ("Data de Demissao" :> {Date(Term1), Null}),
      ("Salario Base" :> {Num(1000), Num(3000)}) @@ ("Avaliacao" :> {Num(4), Null}),
      ("Avaliacao" :> {Num(5), Str(<<"x">>)}),
      ("Sexo" :> {Num(1), Null}) @@ ("Area" :> {Str(<<"R","H">>)}) }

FilterToday == YMD(2024, 1, 10)

BirthAfter == YMD(2030, 1, 1)
HireAfter == YMD(2025, 8, 1)

\* the sheets of the preparation runs
PrepSchemas ==
    { ("Salario Base" :> {Num(1000), Num(0 - 5), Str(<<"x">>), Null}),
      ("Salario Base" :> {Num(1000)})
        @@ ("Impostos" :> {Num(200), Str(<<" ","3","0"," ">>)})
        @@ ("Beneficios" :> {Num(50), Null})
        @@ ("VT" :> {Str(<<"-","7">>)})
        @@ ("VR" :> {Num(9)}),
      ("Data de Nascimento" :> {Date(Birth1), Date(BirthAfter), Null}),
      ("Data de Contratacao" :> {Date(Hire1), Date(HireAfter), Null}),
      ("Data de Nascimento" :> {Date(BirthAfter)})
        @@ ("Data de Contratacao" :> {Date(Hire1), Date(HireAfter)}),
      ("Data de Demissao" :> {Date(Term1), Null, Str(<<"n","/","a">>)}),
      ("Area" :> {Str(<<"R","H">>)}) }

PrepTodays == {Hire2, FilterToday}

(***************************************************************************)
(* The script, one run per interaction.                                    *)
(***************************************************************************)
NoTable == [ok |-> FALSE, cols |-> {}, rows |-> <<>>]
NoWidgets == [id \in Widgets |-> WSel({})]

\* the data source of a run: up is "a file was uploaded", existe the answer
\* of os.path.exists(caminho_manual), legivel "read_excel parses the bytes"
Source(up, existe, legivel) == [up |-> up, existe |-> existe, legivel |-> legivel]

\* the workbook is at the default path and can be read
PathSource == Source(FALSE, TRUE, TRUE)
ReadableSources == {PathSource, Source(TRUE, FALSE, TRUE)}
FailingSources == {Source(TRUE, FALSE, FALSE), Source(FALSE, FALSE, FALSE),
                   Source(FALSE, TRUE, FALSE)}

Upload == "Upload"
Caminho == "Caminho"
NoFonte == "None"

\* the three st.error texts of the load block, and "no error shown"
NoError == "none"
ERR_UPLOAD == "Erro ao ler Excel (Upload)"
ERR_NAO_ENCONTRADO == "Arquivo nao encontrado em"
ERR_CAMINHO == "Erro ao ler Excel (Caminho)"

Stopped(msg) == [df |-> NoTable, fonte |-> NoFonte, st_error |-> msg]

\* lines 130-138: read_excel raises on bytes that are no workbook, and
\* prepare_df runs inside the loader, so its exception leaves the loader too
Loader(src, sheet, td, via, msg) ==
    IF ~src.legivel THEN Stopped(msg)
    ELSE LET t == prepare_df(sheet, td)
         IN  IF t.ok THEN [df |-> t, fonte |-> via, st_error |-> NoError]
             ELSE Stopped(msg)

LoadBlock_NoExistsCheck(src, sheet, td) ==
    IF src.up THEN Loader(src, sheet, td, Upload, ERR_UPLOAD)
    ELSE Loader([src EXCEPT !.legivel = src.legivel /\ src.existe],
                sheet, td, Caminho, ERR_CAMINHO)

\* lines 183-203: the upload is tried first; without one the path is checked
\* and then read.  st.stop() raises a BaseException, which the
\* "except Exception" of line 201 does not catch.
LoadBlock(src, sheet, td) ==
    IF src.up THEN Loader(src, sheet, td, Upload, ERR_UPLOAD)
    ELSE IF ~src.existe THEN Stopped(ERR_NAO_ENCONTRADO)
    ELSE Loader(src, sheet, td, Caminho, ERR_CAMINHO)

\* lines 17-19 and 464-465: the session state of a new session
NoChat == <<>>

Init ==
    /\ pc = "start"
    /\ today = FilterToday
    /\ source = PathSource
    /\ raw \in UNION {Sheets(sc, MaxRows) : sc \in FilterSchemas}
    /\ df = NoTable
    /\ fonte = NoFonte
    /\ st_error = NoError
    /\ show_ia_input = FALSE
    /\ chat_history = NoChat
    /\ w = NoWidgets
    /\ df_f = RaisedView
    /\ filtered_df = RaisedView
    /\ kpi = NoKpi

\* lines 183-205: the sheet is read and prepared; an exception of prepare_df
\* is caught, reported and the run stopped
Load ==
    /\ pc = "start"
    /\ LET o == LoadBlock(source, raw, today)
       IN  /\ df' = o.df
           /\ fonte' = o.fonte
           /\ st_error' = o.st_error
           /\ pc' = IF o.st_error = NoError THEN "loaded" ELSE "load_error"
    /\ UNCHANGED <<today, source, raw, w, df_f, filtered_df, kpi,
                   show_ia_input, chat_history>>

\* lines 211-460: the widgets are read, both panels filter, the cards are
\* computed; an uncaught exception ends the run
Run ==
    /\ pc = "loaded"
    /\ \E ws \in WidgetStates(df) :
          LET basic == BasicFilter(df, ws)
              adv   == IF ~basic.ok \/ DateInputRaises(ws) THEN RaisedView
                       ELSE AdvancedFilter(df, ws)
              cards == Kpis(df, adv)
          IN  /\ w' = ws
              /\ df_f' = basic
              /\ filtered_df' = adv
              /\ kpi' = cards
              /\ pc' = IF cards.ok THEN "view" ELSE "crashed"
    /\ UNCHANGED <<today, source, raw, df, fonte, st_error, show_ia_input, chat_history>>

\* the user touches a widget: the script runs again from the top, the load
\* being served from the cache
Interact ==
    /\ pc \in {"view", "crashed"}
    /\ pc' = "loaded"
    /\ w' = NoWidgets
    /\ df_f' = RaisedView
    /\ filtered_df' = RaisedView
    /\ kpi' = NoKpi
    /\ UNCHANGED <<today, source, raw, df, fonte, st_error, show_ia_input, chat_history>>

Next == Load \/ Run \/ Interact

Spec == Init /\ [][Next]_vars

\* the same script over the sheets of the preparation runs
InitPrep ==
    /\ pc = "start"
    /\ today \in PrepTodays
    /\ source = PathSource
    /\ raw \in UNION {Sheets(sc, MaxRowsPrep) : sc \in PrepSchemas}
    /\ df = NoTable
    /\ fonte = NoFonte
    /\ st_error = NoError
    /\ show_ia_input = FALSE
    /\ chat_history = NoChat
    /\ w = NoWidgets
    /\ df_f = RaisedView
    /\ filtered_df = RaisedView
    /\ kpi = NoKpi

SpecPrep == InitPrep /\ [][Next]_vars

\* the same script over every data source: a readable upload or path, an
\* upload or a path that read_excel cannot parse, and a path that is missing
LoadSchemas ==
    { ("Sexo" :> {Num(1), Str(<<"F">>)}) @@ ("Area" :> {Str(<<"R","H">>)}),
      ("Data de Contratacao" :> {Date(Hire1), Null})
        @@ ("Data de Demissao" :> {Date(Term1), Null}) }

InitLoad ==
    /\ pc = "start"
    /\ today = FilterToday
    /\ \/ /\ source \in ReadableSources
          /\ raw \in UNION {Sheets(sc, MaxRows) : sc \in LoadSchemas}
       \/ /\ source \in FailingSources
          /\ raw = NoTable
    /\ df = NoTable
    /\ fonte = NoFonte
    /\ st_error = NoError
    /\ w = NoWidgets
    /\ df_f = RaisedView
    /\ filtered_df = RaisedView
    /\ kpi = NoKpi
    /\ show_ia_input = FALSE
    /\ chat_history = NoChat

SpecLoad == InitLoad /\ [][Next]_vars

(***************************************************************************)
(* The assistant panel (lines 463-560).  A text is a tuple of strings: a   *)
(* typed message one character per element, a fixed text of the code one   *)
(* element.                                                                *)
(***************************************************************************)
UserEntry(m) == [role |-> "user", content |-> m]
IaEntry(m) == [role |-> "ia", content |-> m]

MSG_CONFIGURE == <<"Configure a variavel de ambiente GEMINI_API_KEY com sua chave Gemini.">>
MSG_NAO_ENCONTRADA == <<"Resposta nao encontrada.">>
MSG_ERRO_GEMINI == <<"Erro Gemini: {r.status_code} - {r.text}">>
MSG_TEMPO == <<"Tempo excedido. Tente novamente ou verifique sua conexao.">>
MSG_ERRO_CONEXAO == <<"Erro de conexao Gemini: {e}">>
CandidateText == <<"candidates[0].content.parts[0].text">>
IaTexts == {MSG_CONFIGURE, MSG_NAO_ENCONTRADA, MSG_ERRO_GEMINI, MSG_TEMPO,
            MSG_ERRO_CONEXAO, CandidateText}

\* what the statements of the try block evaluate to: a text, or an exception
Value(m) == [exc |-> "none", text |-> m]
Raises(e) == [exc |-> e, text |-> <<>>]

\* what requests.post does: it times out, fails in transport, or answers
\* with a status and a body
Timeout == [kind |-> "Timeout", status |-> 0, body |-> "none"]
Transport == [kind |-> "ConnectionError", status |-> 0, body |-> "none"]
Response(status, body) == [kind |-> "response", status |-> status, body |-> body]
Bodies == {"not json", "no candidates", "candidates []", "candidate without content",
           "candidates"}
Outcomes == {Timeout, Transport} \cup {Response(st, b) : st \in {200, 500}, b \in Bodies}

\* lines 550-555: r.json() and the subscripts of the first candidate
TryBody(o) ==
    CASE o.kind = "Timeout" -> Raises("Timeout")
      [] o.kind = "ConnectionError" -> Raises("ConnectionError")
      [] OTHER ->
            IF o.status = 200
            THEN CASE o.body = "not json" -> Raises("JSONDecodeError")
                   [] o.body = "no candidates" -> Value(MSG_NAO_ENCONTRADA)
                   [] o.body = "candidates []" -> Raises("IndexError")
                   [] o.body = "candidate without content" -> Raises("KeyError")
                   [] OTHER -> Value(CandidateText)
            ELSE Value(MSG_ERRO_GEMINI)

ExceptClauses_TimeoutOnly(r) ==
    IF r.exc = "Timeout" THEN Value(MSG_TEMPO) ELSE r

\* lines 556-559: except requests.Timeout, then except Exception
ExceptClauses(r) ==
    CASE r.exc = "none" -> r
      [] r.exc = "Timeout" -> Value(MSG_TEMPO)
      [] OTHER -> Value(MSG_ERRO_CONEXAO)

\* lines 537-559: without the key no request is made
ia_response(key, o) ==
    IF ~key THEN Value(MSG_CONFIGURE) ELSE ExceptClauses(TryBody(o))

\* messages typed in the form: empty, blank, and a text
ChatMessages == {<<>>, <<" ">>, <<"o", "i">>}

\* lines 468-471: the button opens the panel
OpenChat ==
    /\ pc = "view"
    /\ ~show_ia_input
    /\ show_ia_input' = TRUE
    /\ UNCHANGED <<pc, today, source, raw, df, fonte, st_error, w, df_f, filtered_df,
                   kpi, chat_history>>

\* lines 530-560: the form is submitted with user_msg, the environment has
\* the key or not, and the request ends as o.  The widgets being what they
\* were, the statements above the form compute what they computed before.
SubmitOf(user_msg, key, o) ==
    /\ pc = "view"
    /\ show_ia_input
    /\ Len(chat_history) < 2 * MaxChat
    /\ IF StrStrip(user_msg) = <<>>
       THEN UNCHANGED <<pc, chat_history>>
       ELSE LET r == ia_response(key, o)
            IN  IF r.exc = "none"
                THEN /\ chat_history' = chat_history \o <<UserEntry(user_msg), IaEntry(r.text)>>
                     /\ pc' = pc
                ELSE /\ chat_history' = Append(chat_history, UserEntry(user_msg))
                     /\ pc' = "chat_crashed"
    /\ UNCHANGED <<today, source, raw, df, fonte, st_error, w, df_f, filtered_df, kpi,
                   show_ia_input>>

Submit == \E user_msg \in ChatMessages, key \in BOOLEAN, o \in Outcomes :
              SubmitOf(user_msg, key, o)

\* the script with the assistant panel in use
NextChat == Next \/ OpenChat \/ Submit

ChatSchemas == { ("Area" :> {Str(<<"R","H">>)}) }

InitChat ==
    /\ pc = "start"
    /\ today = FilterToday
    /\ source = PathSource
    /\ raw \in UNION {Sheets(sc, MaxRows) : sc \in ChatSchemas}
    /\ df = NoTable
    /\ fonte = NoFonte
    /\ st_error = NoError
    /\ w = NoWidgets
    /\ df_f = RaisedView
    /\ filtered_df = RaisedView
    /\ kpi = NoKpi
    /\ show_ia_input = FALSE
    /\ chat_history = NoChat

SpecChat == InitChat /\ [][NextChat]_vars

(***************************************************************************)
(* The claims.                                                             *)
(***************************************************************************)
Ran == pc \in {"view", "crashed"}

\* the run reached the advanced block's filter statements
ReachedAdvanced == Ran /\ df_f.ok /\ ~DateInputRaises(w)

RowSet(v) == Range(v.idx)

CategoricalAdvanced == {"area_filtrada", "cargo_filtrado", "nivel_filtrado",
                        "sexo_filtrado", "status_filtrado"}

\* the advanced block with every categorical criterion a membership filter,
\* its other statements as they are
MembershipStep(id, t, ws, v) ==
    IF id \in CategoricalAdvanced
    THEN (IF ~v.ok THEN v ELSE apply_in(t, v, WidgetCol(id), ws[id].sel))
    ELSE AdvancedStep(id, t, ws, v)

RECURSIVE MembershipSteps(_, _, _, _)
MembershipSteps(order, t, ws, v) ==
    IF order = <<>> THEN v
    ELSE MembershipSteps(Tail(order), t, ws, MembershipStep(Head(order), t, ws, v))

\* C1: the view handed to the cards, charts, table and export holds exactly
\* the rows of the canonical table that satisfy every configured criterion,
\* with all of its columns; each categorical criterion (area, level, role,
\* sex, status) with a non-empty selection keeps exactly the rows whose value
\* in that field is one of the selected values.
C1_MembershipView ==
    ReachedAdvanced =>
        filtered_df = MembershipSteps(AdvancedOrder, df, w, FullView(df))

AllDefault == \A id \in Widgets : w[id] = Default(df, id)

\* C2: with every criterion left at its default the filtered view has the
\* rows of the canonical table, those with a null age or date included.
C2_DefaultsKeepAll ==
    (Ran /\ AllDefault) => (filtered_df.ok /\ filtered_df.idx = FullView(df).idx)

\* the order with the statements at positions i and j exchanged
Swap(order, i, j) ==
    [n \in DOMAIN order |-> IF n = i THEN order[j] ELSE IF n = j THEN order[i] ELSE order[n]]

Swaps(order) == {Swap(order, p[1], p[2]) : p \in (DOMAIN order) \X (DOMAIN order)}

\* C3: applying the configured criteria in another order yields the same
\* row set, in both panels.
C3_OrderIndependent ==
    /\ (Ran /\ df_f.ok) =>
          \A o \in Swaps(BasicOrder) :
              LET v == BasicSteps(o, df, w, FullView(df))
              IN  v.ok /\ RowSet(v) = RowSet(df_f)
    /\ ReachedAdvanced =>
          \A o \in Swaps(AdvancedOrder) :
              LET v == AdvancedSteps(o, df, w, FullView(df))
              IN  v.ok = filtered_df.ok /\ RowSet(v) = RowSet(filtered_df)

\* the view before the statement at position n of the order
BasicBefore(n) == BasicSteps(SubSeq(BasicOrder, 1, n - 1), df, w, FullView(df))
AdvancedBefore(n) == AdvancedSteps(SubSeq(AdvancedOrder, 1, n - 1), df, w, FullView(df))

DateWidgets == BasicDateWidgets \cup AdvancedDateWidgets

\* the criterion is one the panel applies in this run
Active(id) ==
    CASE id \in MultiselectWidgets -> w[id].sel # {}
      [] id \in {"nome_busca", "nome_filtrado"} -> w[id].txt # <<>>
      [] OTHER -> w[id].rng.k # "none"

\* the row has no value in the field: the column is absent, the cell of the
\* canonical table is null, or the cell of the sheet was empty
NullIn(i, c) ==
    \/ c \notin df.cols
    \/ IsNull(df.rows[i][c])
    \/ (c \in raw.cols /\ IsNull(raw.rows[i][c]))

\* C4: an active date-range filter never excludes a row whose date is null;
\* every other active filter excludes every row whose value in its field is
\* null or missing.
C4_NullAsymmetry ==
    /\ (Ran /\ df_f.ok) =>
          /\ \A n \in DOMAIN BasicOrder :
                (BasicOrder[n] \in DateWidgets /\ Active(BasicOrder[n])) =>
                    \A i \in RowSet(BasicBefore(n)) :
                        NullIn(i, WidgetCol(BasicOrder[n])) => i \in RowSet(BasicBefore(n + 1))
          /\ \A id \in Range(BasicOrder) \ DateWidgets :
                Active(id) => \A i \in RowSet(df_f) : ~NullIn(i, WidgetCol(id))
    /\ (ReachedAdvanced /\ filtered_df.ok) =>
          /\ \A n \in DOMAIN AdvancedOrder :
                (AdvancedOrder[n] \in DateWidgets /\ Active(AdvancedOrder[n])) =>
                    \A i \in RowSet(AdvancedBefore(n)) :
                        NullIn(i, WidgetCol(AdvancedOrder[n]))
                            => i \in RowSet(AdvancedBefore(n + 1))
          /\ \A id \in Range(AdvancedOrder) \ DateWidgets :
                Active(id) => \A i \in RowSet(filtered_df) : ~NullIn(i, WidgetCol(id))

Loaded == df.ok

\* the cell of the sheet is a negative number, as a number or as text
NegativeCell(c) ==
    \/ c.k = "num" /\ c.n < 0
    \/ c.k = "str" /\ StrStrip(c.s) # <<>> /\ Head(StrStrip(c.s)) = "-"

\* the cell of the sheet is text that is no number
UnparseableCell(c) ==
    c.k = "str" /\ \E j \in DOMAIN c.s : ~IsDigit(c.s[j]) /\ c.s[j] \notin {"-", " "}

\* C5 as stated: after prepare_df every currency cell is a number, never
\* null, and >= 0, whatever the input cell, negative numbers included.
C5_NonNegativeCurrency ==
    Loaded => \A i \in 1..NRows(df) : \A c \in CurrencyCols :
                  df.rows[i][c].k = "num" /\ df.rows[i][c].n >= 0

\* C5 amended: after prepare_df every currency cell is a number, never null:
\* 0 for an absent column, an empty cell and an unparseable cell, the number
\* of the sheet otherwise; it is negative only where the sheet's cell is a
\* negative number.
C5_NumericCurrency ==
    Loaded => \A i \in 1..NRows(df) : \A c \in CurrencyCols :
        /\ df.rows[i][c].k = "num"
        /\ c \notin raw.cols => df.rows[i][c].n = 0
        /\ c \in raw.cols =>
              /\ (IsNull(raw.rows[i][c]) \/ UnparseableCell(raw.rows[i][c]))
                    => df.rows[i][c].n = 0
              /\ raw.rows[i][c].k = "num" => df.rows[i][c].n = raw.rows[i][c].n
        /\ df.rows[i][c].n < 0 => (c \in raw.cols /\ NegativeCell(raw.rows[i][c]))

C5_Witness ==
    /\ Loaded /\ "VR" \notin raw.cols /\ "Salario Base" \in raw.cols
    /\ \E i \in 1..NRows(df) :
          UnparseableCell(raw.rows[i]["Salario Base"]) /\ df.rows[i]["Salario Base"] = Num(0)
    /\ \E i \in 1..NRows(df) : df.rows[i]["Salario Base"].n < 0
    /\ \E i \in 1..NRows(df) : IsNull(raw.rows[i]["Salario Base"])

HiredOn(i, d) ==
    "Data de Contratacao" \in df.cols /\ df.rows[i]["Data de Contratacao"] = Date(d)

\* C6 as stated: a hire date of 2020-01-15 with reference date 2021-03-01
\* yields tenure_months = 13.
C6_TenureThirteen ==
    (Loaded /\ today = YMD(2021, 3, 1)) =>
        \A i \in 1..NRows(df) :
            HiredOn(i, YMD(2020, 1, 15)) => df.rows[i]["Tempo de Casa (meses)"] = Num(13)

\* C6 amended: a hire date of 2020-01-15 with reference date 2021-03-01
\* yields tenure_months = 14, that is (2021 - 2020) * 12 + (3 - 1).
C6_TenureFourteen ==
    (Loaded /\ today = YMD(2021, 3, 1)) =>
        \A i \in 1..NRows(df) :
            HiredOn(i, YMD(2020, 1, 15)) => df.rows[i]["Tempo de Casa (meses)"] = Num(14)

C6_Witness ==
    /\ Loaded /\ today = YMD(2021, 3, 1)
    /\ \E i \in 1..NRows(df) : HiredOn(i, YMD(2020, 1, 15))

\* C7: a row with a birth date has an age >= 0 and a row with a hire date a
\* tenure >= 0, also when the date lies after the reference date.
C7_AgeTenureNonNegative ==
    Loaded => \A i \in 1..NRows(df) :
        /\ ("Data de Nascimento" \in df.cols /\ ~IsNull(df.rows[i]["Data de Nascimento"]))
              => (df.rows[i]["Idade"].k = "num" /\ df.rows[i]["Idade"].n >= 0)
        /\ ("Data de Contratacao" \in df.cols /\ ~IsNull(df.rows[i]["Data de Contratacao"]))
              => (df.rows[i]["Tempo de Casa (meses)"].k = "num"
                  /\ df.rows[i]["Tempo de Casa (meses)"].n >= 0)

C7_Witness ==
    /\ Loaded /\ {"Data de Nascimento", "Data de Contratacao"} \subseteq df.cols
    /\ \E i \in 1..NRows(df) :
          /\ df.rows[i]["Data de Nascimento"].k = "date"
          /\ df.rows[i]["Data de Nascimento"].n > today
          /\ df.rows[i]["Idade"] = Num(0)
          /\ df.rows[i]["Data de Contratacao"].k = "date"
          /\ df.rows[i]["Data de Contratacao"].n > today
          /\ df.rows[i]["Tempo de Casa (meses)"] = Num(0)

\* C8: after every derivation run, total_monthly_cost of every row is the sum
\* of the row's five currency fields as normalised in that run.
C8_TotalIsSum ==
    Loaded => \A i \in 1..NRows(df) :
        df.rows[i]["Custo Total Mensal"] =
            Num(df.rows[i]["Salario Base"].n + df.rows[i]["Impostos"].n
                + df.rows[i]["Beneficios"].n + df.rows[i]["VT"].n + df.rows[i]["VR"].n)

C8_Witness ==
    /\ Loaded
    /\ \E i \in 1..NRows(df) :
          /\ \A c \in CurrencyCols : df.rows[i][c].n # 0
          /\ raw.rows[i]["Impostos"].k = "str"
          /\ df.rows[i]["Custo Total Mensal"].n # df.rows[i]["Salario Base"].n

Terminated(i) ==
    "Data de Demissao" \in df.cols /\ ~IsNull(df.rows[i]["Data de Demissao"])

\* C9: after derivation the status of every row is Ativo or Desligado, and
\* Desligado exactly when the termination column exists and the row's
\* termination date is non-null, an unparseable date counting as null; on a
\* table of 3 rows with a termination date on one row only the cards show
\* active_headcount = 2 and terminated_count = 1.
C9_Status ==
    /\ Loaded => \A i \in 1..NRows(df) :
          /\ df.rows[i]["Status"] \in {Str(Ativo), Str(Desligado)}
          /\ df.rows[i]["Status"] = Str(Desligado) <=> Terminated(i)
          /\ ("Data de Demissao" \in raw.cols /\ UnparseableCell(raw.rows[i]["Data de Demissao"]))
                => df.rows[i]["Status"] = Str(Ativo)
          /\ "Data de Demissao" \notin raw.cols => df.rows[i]["Status"] = Str(Ativo)
    /\ (/\ pc = "view" /\ filtered_df = FullView(df) /\ NRows(df) = 3
        /\ Cardinality({i \in 1..NRows(df) : Terminated(i)}) = 1)
          => (kpi.headcount = 2 /\ kpi.desligados = 1)

C9_Witness ==
    /\ pc = "view" /\ filtered_df = FullView(df) /\ NRows(df) = 3
    /\ Terminated(3) /\ ~Terminated(1) /\ ~Terminated(2)
    /\ UnparseableCell(raw.rows[1]["Data de Demissao"])
    /\ df.rows[1]["Status"] = Str(Ativo) /\ df.rows[3]["Status"] = Str(Desligado)
    /\ kpi.headcount = 2 /\ kpi.desligados = 1

AllNullIn(v, c) == \A j \in 1..Len(v.idx) : IsNull(df.rows[v.idx[j]][c])

\* C10: each of the six KPI functions returns 0, never NaN and never an
\* error, on an empty table and on a table without the column it reads; the
\* two means also return 0 when every value of their column is null.
C10_KpiFallbacks ==
    (Ran /\ filtered_df.ok) =>
        LET v == filtered_df
        IN  /\ kpi.ok => (kpi.idade.den # 0 /\ kpi.avaliacao.den # 0)
            /\ v.idx = <<>> =>
                  /\ kpi.ok
                  /\ kpi.headcount = 0 /\ kpi.desligados = 0
                  /\ kpi.folha = 0 /\ kpi.custo = 0
                  /\ kpi.idade = Zero /\ kpi.avaliacao = Zero
            /\ "Status" \notin v.cols =>
                  (kpi.headcount = 0 /\ kpi.desligados = 0 /\ kpi.folha = 0 /\ kpi.custo = 0)
            /\ "Salario Base" \notin v.cols => kpi.folha = 0
            /\ "Custo Total Mensal" \notin v.cols => kpi.custo = 0
            /\ ("Idade" \notin v.cols \/ AllNullIn(v, "Idade")) => kpi.idade = Zero
            /\ ("Avaliacao" \notin v.cols \/ AllNullIn(v, "Avaliacao"))
                  => (kpi.ok /\ kpi.avaliacao = Zero)

C10_Witness ==
    /\ pc = "view" /\ NRows(df) > 0 /\ filtered_df.idx = <<>>
    /\ {"Status", "Idade", "Salario Base"} \subseteq filtered_df.cols
    /\ kpi.ok /\ kpi.idade = Zero /\ kpi.headcount = 0

(***************************************************************************)
(* C11: failures of the load block.                                        *)
(***************************************************************************)
PastLoad == pc # "start"
Missing == ~source.up /\ ~source.existe
Unparseable == (source.up \/ source.existe) /\ ~source.legivel
DerivedCols == {"Status", "Custo Total Mensal"} \cup CurrencyCols

\* C11: when the path is missing or the source cannot be parsed the run shows
\* an error, a different one for the missing path than for the parse
\* failure, and stops: no widget is read, no filter, KPI or later step runs,
\* and no further step of the run is possible.  Filters and KPIs only run on
\* the table prepare_df returned, with its derived columns.
C11_LoadFailureHalts ==
    /\ (PastLoad /\ Missing) => (pc = "load_error" /\ st_error = ERR_NAO_ENCONTRADO)
    /\ (PastLoad /\ Unparseable) =>
          /\ pc = "load_error"
          /\ st_error = (IF source.up THEN ERR_UPLOAD ELSE ERR_CAMINHO)
          /\ st_error # ERR_NAO_ENCONTRADO
    /\ pc = "load_error" =>
          /\ st_error # NoError
          /\ df = NoTable /\ fonte = NoFonte
          /\ w = NoWidgets /\ df_f = RaisedView /\ filtered_df = RaisedView /\ kpi = NoKpi
          /\ ~ENABLED Next
    /\ pc \in {"loaded", "view", "crashed"} =>
          /\ st_error = NoError
          /\ source.legivel /\ (source.up \/ source.existe)
          /\ df.ok /\ df = prepare_df(raw, today)
          /\ DerivedCols \subseteq df.cols

C11_Witness ==
    /\ pc = "load_error" /\ Missing /\ st_error = ERR_NAO_ENCONTRADO
    /\ df = NoTable /\ kpi = NoKpi

(***************************************************************************)
(* C12: prepare_df on any sheet.                                           *)
(***************************************************************************)
\* C12: prepare_df raises for no sheet: whatever columns the sheet has and
\* whatever its cells hold (a Sexo column without text included), it returns
\* a table.
C12_PrepareNeverRaises ==
    (PastLoad /\ ~Missing /\ ~Unparseable) =>
        (prepare_df(raw, today).ok /\ pc # "load_error")

(***************************************************************************)
(* C13: the canonical table under filtering.                               *)
(***************************************************************************)
\* the view keeps rows of the table and every column of it
RowSubsetOf(v, t) == v.cols = t.cols /\ RowSet(v) \subseteq 1..NRows(t)

\* C13: after the filters of a run the canonical table is the one the load
\* returned, and each panel's view is a subset of its rows with all of its
\* columns.
C13_ViewsLeaveTable ==
    /\ Ran => df = prepare_df(raw, today)
    /\ (Ran /\ df_f.ok) => RowSubsetOf(df_f, df)
    /\ (ReachedAdvanced /\ filtered_df.ok) => RowSubsetOf(filtered_df, df)

(***************************************************************************)
(* C14: the chat history.                                                  *)
(***************************************************************************)
Alternates(h) ==
    /\ Len(h) % 2 = 0
    /\ \A i \in 1..Len(h) : h[i].role = (IF i % 2 = 1 THEN "user" ELSE "ia")

\* the submission appended the user's message and then one answer
AppendedPair(m) ==
    \E t \in IaTexts : chat_history' = chat_history \o <<UserEntry(m), IaEntry(t)>>

\* C14: a submission of a non-blank message appends one user entry and then
\* one "ia" entry whatever the key and the request do, and raises nothing;
\* without the key the answer is the configuration hint whatever the request
\* would have done.  The history always alternates user, ia and has even
\* length.
C14_ChatHistory ==
    /\ []Alternates(chat_history)
    /\ [][\A m \in ChatMessages, key \in BOOLEAN, o \in Outcomes :
            (SubmitOf(m, key, o) /\ StrStrip(m) # <<>>) =>
                /\ AppendedPair(m)
                /\ pc' = "view"
                /\ ~key => chat_history'[Len(chat_history')] = IaEntry(MSG_CONFIGURE)]_vars

C14_Witness ==
    /\ Len(chat_history) = 2 * MaxChat
    /\ chat_history[2] = IaEntry(MSG_ERRO_CONEXAO)
    /\ chat_history[Len(chat_history)] = IaEntry(MSG_TEMPO)
    /\ pc = "view"

(***************************************************************************)
(* C15: the two head counts.                                               *)
(***************************************************************************)
\* the view of table t that keeps the rows at the positions in S
RowsView(t, S) == [FullView(t) EXCEPT !.idx = SelectSeq(@, LAMBDA i : i \in S)]

\* C15: on a table prepare_df returned, for every subset of its rows, the
\* active head count plus the terminated count is the number of rows of the
\* view; so it is for the cards of a run whose view is a row subset.
C15_CountsPartition ==
    /\ Loaded =>
          \A S \in SUBSET (1..NRows(df)) :
              k_headcount_ativo(df, RowsView(df, S)) + k_desligados(df, RowsView(df, S))
                  = Cardinality(S)
    /\ (Ran /\ kpi.ok /\ RowSubsetOf(filtered_df, df)) =>
          kpi.headcount + kpi.desligados = Len(filtered_df.idx)

C15_Witness ==
    /\ pc = "view" /\ kpi.ok /\ RowSubsetOf(filtered_df, df)
    /\ kpi.headcount >= 1 /\ kpi.desligados >= 1
    /\ Len(filtered_df.idx) = MaxRowsPrep


====
